---- MODULE Spec2Model ----
(***************************************************************************)
(* Travel-time matrix engine of Pharmacy_Refusals/Modular_Code:            *)
(*   - compute_t_matrices_1.py: the weighted symmetrization                *)
(*     (compute_dtilde_matrix, compute_d_matrix, process_files);           *)
(*   - raw_walk_and_drive_times_test_2.py: per-source Dijkstra matrices;   *)
(*   - raw_walk_and_drive_times1.py: pairwise pool.map matrices.           *)
(*                                                                         *)
(* numpy floats are modelled as exact rationals plus the IEEE special      *)
(* values NaN and +/-inf; rounding is not modelled.  Indices are 1-based   *)
(* here and 0-based in the source: the source's cell [i,j] is [i+1][j+1].  *)
(***************************************************************************)
EXTENDS Integers, Sequences, FiniteSets, TLC

\* Bounds of the model.
MaxT == 2       \* largest finite entry of a generated travel matrix
MaxPop == 2     \* largest population of a generated population vector

\* Dimensions of the generated travel matrices; population vectors are
\* generated one longer as well, for the mismatched calls.
Dims == {1, 2}

PopLens == Dims \cup {3}

MaxW == 2       \* largest edge weight of a generated graph
MaxPts == 2     \* largest number of points snapped to the graph

\* Nodes of the generated graphs.
GraphNodes == {1, 2, 3}

(***************************************************************************)
(* Float arithmetic: a value is a normalised rational, NaN or +/-inf.      *)
(***************************************************************************)
Abs(x) == IF x < 0 THEN -x ELSE x

Sign(x) == IF x < 0 THEN -1 ELSE 1

Max(a, b) == IF a >= b THEN a ELSE b

RECURSIVE GCD(_, _)
GCD(a, b) == IF b = 0 THEN a ELSE GCD(b, a % b)

NaN == [k |-> "nan", n |-> 0, d |-> 1]

Inf(s) == [k |-> "inf", n |-> s, d |-> 1]

\* The rational n/d, d > 0, in lowest terms.
Rat(n, d) ==
    LET g == GCD(Abs(n), d)
    IN  [k |-> "num", n |-> n \div g, d |-> d \div g]

Num(x) == Rat(x, 1)

IsNaN(a) == a.k = "nan"

IsFinite(a) == a.k = "num"

\* IEEE ==: NaN equals nothing, itself included.
FEq(a, b) == a.k # "nan" /\ b.k # "nan" /\ a = b

FMul(a, b) ==
    IF IsNaN(a) \/ IsNaN(b) THEN NaN
    ELSE IF IsFinite(a) /\ IsFinite(b) THEN Rat(a.n * b.n, a.d * b.d)
    ELSE IF a.n = 0 \/ b.n = 0 THEN NaN
    ELSE Inf(Sign(a.n) * Sign(b.n))

FAdd(a, b) ==
    IF IsNaN(a) \/ IsNaN(b) THEN NaN
    ELSE IF IsFinite(a) /\ IsFinite(b) THEN Rat(a.n * b.d + b.n * a.d, a.d * b.d)
    ELSE IF IsFinite(a) THEN b
    ELSE IF IsFinite(b) THEN a
    ELSE IF a.n = b.n THEN a ELSE NaN

FDiv(a, b) ==
    IF IsNaN(a) \/ IsNaN(b) THEN NaN
    ELSE IF IsFinite(a) /\ IsFinite(b) THEN
        IF b.n = 0 THEN (IF a.n = 0 THEN NaN ELSE Inf(Sign(a.n)))
        ELSE Rat(Sign(b.n) * a.n * b.d, a.d * Abs(b.n))
    ELSE IF IsFinite(a) THEN Num(0)
    ELSE IF IsFinite(b) THEN Inf(a.n * Sign(b.n))
    ELSE NaN

(***************************************************************************)
(* compute_t_matrices_1.py                                                 *)
(***************************************************************************)

\* numpy broadcasting of an axis of length len against a longer axis: an
\* axis of length 1 is repeated.
Bc(i, len) == IF len = 1 THEN 1 ELSE i

\* Line 35 with a typo in the denominator: pop_i + pop_i.
dtilde_quotient_denom(tm, pops, i, j) ==
    LET n == Len(tm)
        m == Len(pops)
        pop_i == Num(pops[Bc(i, m)])
        pop_j == Num(pops[Bc(j, m)])
    IN  FDiv(FAdd(FMul(pop_i, tm[Bc(i, n)][Bc(j, n)]),
                  FMul(pop_j, tm[Bc(j, n)][Bc(i, n)])),
             FAdd(pop_i, pop_i))

\* Line 35 with the two weights exchanged.
dtilde_quotient_swapped(tm, pops, i, j) ==
    LET n == Len(tm)
        m == Len(pops)
        pop_i == Num(pops[Bc(i, m)])
        pop_j == Num(pops[Bc(j, m)])
    IN  FDiv(FAdd(FMul(pop_j, tm[Bc(i, n)][Bc(j, n)]),
                  FMul(pop_i, tm[Bc(j, n)][Bc(i, n)])),
             FAdd(pop_i, pop_j))

\* Line 35, cell [i,j] of
\*   (pop_i * travel_matrix + pop_j * travel_matrix.T) / (pop_i + pop_j)
\* with pop_i of shape (m,1), pop_j of shape (1,m), travel_matrix (n,n).
dtilde_quotient(tm, pops, i, j) ==
    LET n == Len(tm)
        m == Len(pops)
        pop_i == Num(pops[Bc(i, m)])
        pop_j == Num(pops[Bc(j, m)])
    IN  FDiv(FAdd(FMul(pop_i, tm[Bc(i, n)][Bc(j, n)]),
                  FMul(pop_j, tm[Bc(j, n)][Bc(i, n)])),
             FAdd(pop_i, pop_j))

\* Line 37 left out.
nan_kept(q) == q

\* Line 37: dtilde[np.isnan(dtilde)] = 0.
nan_to_zero(q) == IF IsNaN(q) THEN Num(0) ELSE q

\* The shapes (m,1), (1,m) and (n,n) broadcast together iff m = n or one
\* of them is 1; numpy raises ValueError otherwise.
Broadcastable(m, n) == m = n \/ m = 1 \/ n = 1

\* compute_dtilde_matrix(travel_matrix, populations): the returned matrix,
\* or the exception raised.
compute_dtilde_matrix(tm, pops) ==
    LET n == Len(tm)
        m == Len(pops)
        r == Max(m, n)
    IN  IF Broadcastable(m, n)
        THEN [err |-> "none",
              val |-> [i \in 1..r |-> [j \in 1..r |->
                          nan_to_zero(dtilde_quotient(tm, pops, i, j))]]]
        ELSE [err |-> "ValueError", val |-> <<>>]

\* Lines 55-71 with the denominator typo popi + popi.
d_cell_denom(dt, pops, i, j) ==
    LET popi == pops[i]
        popj == pops[j]
    IN  IF popi = 0 /\ popj = 0 THEN Num(0)
        ELSE IF popi = 0 THEN dt[j][i]
        ELSE IF popj = 0 THEN dt[i][j]
        ELSE FDiv(FAdd(FMul(Num(popi), dt[i][j]), FMul(Num(popj), dt[j][i])),
                  FAdd(Num(popi), Num(popi)))

\* Lines 55-71 with "or" for "and" in the first test.
d_cell_or(dt, pops, i, j) ==
    LET popi == pops[i]
        popj == pops[j]
    IN  IF popi = 0 \/ popj = 0 THEN Num(0)
        ELSE FDiv(FAdd(FMul(Num(popi), dt[i][j]), FMul(Num(popj), dt[j][i])),
                  FAdd(Num(popi), Num(popj)))

\* Lines 55-71 with the two zero-population branches reading the same cell.
d_cell_same(dt, pops, i, j) ==
    LET popi == pops[i]
        popj == pops[j]
    IN  IF popi = 0 /\ popj = 0 THEN Num(0)
        ELSE IF popi = 0 THEN dt[i][j]
        ELSE IF popj = 0 THEN dt[i][j]
        ELSE FDiv(FAdd(FMul(Num(popi), dt[i][j]), FMul(Num(popj), dt[j][i])),
                  FAdd(Num(popi), Num(popj)))

\* Lines 55-71: the value written to d_matrix[i, j].
d_cell(dt, pops, i, j) ==
    LET popi == pops[i]
        popj == pops[j]
    IN  IF popi = 0 /\ popj = 0 THEN Num(0)
        ELSE IF popi = 0 THEN dt[j][i]
        ELSE IF popj = 0 THEN dt[i][j]
        ELSE FDiv(FAdd(FMul(Num(popi), dt[i][j]), FMul(Num(popj), dt[j][i])),
                  FAdd(Num(popi), Num(popj)))

\* Lines 57-71: iteration (i, j) indexes dtilde_matrix unless both
\* populations are zero.
d_reads(pops, i, j) == ~(pops[i] = 0 /\ pops[j] = 0)

\* compute_d_matrix(dtilde_matrix, populations): n = len(populations); an
\* index past the matrix raises IndexError.
compute_d_matrix(dt, pops) ==
    LET n == Len(pops)
        dim == Len(dt)
    IN  IF \E i, j \in 1..n : d_reads(pops, i, j) /\ (i > dim \/ j > dim)
        THEN [err |-> "IndexError", val |-> <<>>]
        ELSE [err |-> "none",
              val |-> [i \in 1..n |-> [j \in 1..n |-> d_cell(dt, pops, i, j)]]]

(***************************************************************************)
(* Files.  A .npy file holds the shape of the array and its cells as one   *)
(* row-major run; a labelled frame is the array with its row and column    *)
(* labels.                                                                 *)
(***************************************************************************)

\* np.save(npy_path, matrix), lines 116 and 96: shape and C-order data.
np_save(matrix) ==
    LET r == Len(matrix)
        c == IF r = 0 THEN 0 ELSE Len(matrix[1])
    IN  [fmt |-> "npy", shape |-> <<r, c>>,
         data |-> [k \in 1..(r * c) |->
                      matrix[((k - 1) \div c) + 1][((k - 1) % c) + 1]]]

\* np.load(npy_path), lines 92 and 166.
np_load(file) ==
    LET r == file.shape[1]
        c == file.shape[2]
    IN  [i \in 1..r |-> [j \in 1..c |-> file.data[(i - 1) * c + j]]]

NoFrame == [err |-> "none", index |-> <<>>, columns |-> <<>>, values |-> <<>>]

\* A frame constructor that takes the labels as they come.
DataFrame_unchecked(matrix, index, columns) ==
    [err |-> "none", index |-> index, columns |-> columns, values |-> matrix]

\* pd.DataFrame(matrix, index=ids, columns=ids), lines 108 and 176: pandas
\* raises ValueError when the labels do not fit the shape of the array.
DataFrame(matrix, index, columns) ==
    IF \/ Len(index) # Len(matrix)
       \/ \E i \in 1..Len(matrix) : Len(matrix[i]) # Len(columns)
    THEN [NoFrame EXCEPT !.err = "ValueError"]
    ELSE [err |-> "none", index |-> index, columns |-> columns, values |-> matrix]

\* load_labeled_matrix labelling with the IDs in reverse order.
load_labeled_matrix_reversed(file, csv_ids) ==
    LET matrix == np_load(file)
        rev == [k \in 1..Len(csv_ids) |-> csv_ids[Len(csv_ids) + 1 - k]]
    IN  IF Len(matrix) # Len(csv_ids)
        THEN [NoFrame EXCEPT !.err = "ValueError"]
        ELSE DataFrame(matrix, rev, rev)

\* load_labeled_matrix, lines 166-176 (ph_computations.py lines 20-25 are
\* the same statements).
load_labeled_matrix(file, csv_ids) ==
    LET matrix == np_load(file)
    IN  IF Len(matrix) # Len(csv_ids)
        THEN [NoFrame EXCEPT !.err = "ValueError"]
        ELSE DataFrame(matrix, csv_ids, csv_ids)

\* Lines 112-113: f"{base_name}_{label}_{travel_type}.csv" and ".npy".
output_path(base_name, label, travel_type, ext) ==
    <<base_name, label, travel_type, ext>>

\* Lines 106-118: the four files process_files writes, on top of the files
\* already there.
save_outputs(files, base_name, travel_type, dt, d, tract_ids) ==
    LET matrix(label) == IF label = "dtilde" THEN dt ELSE d
        new == {output_path(base_name, label, travel_type, ext) :
                    label \in {"dtilde", "d"}, ext \in {"csv", "npy"}}
    IN  [path \in DOMAIN files \cup new |->
            IF path \in new
            THEN IF path[4] = "npy" THEN np_save(matrix(path[2]))
                 ELSE [fmt |-> "csv",
                       frame |-> DataFrame(matrix(path[2]), tract_ids, tract_ids)]
            ELSE files[path]]

(***************************************************************************)
(* The network: a weighted directed graph from the network provider.  A    *)
(* graph maps each ordered pair of distinct nodes to its edge weight, 0    *)
(* where there is no edge.                                                 *)
(***************************************************************************)
EdgeSlots == {e \in GraphNodes \X GraphNodes : e[1] # e[2]}

Graphs == [EdgeSlots -> 0..MaxW]

HasEdge(G, u, v) == u # v /\ G[<<u, v>>] > 0

Min(S) == CHOOSE x \in S : \A y \in S : x <= y

\* One more edge on every path found so far.
RECURSIVE relax(_, _, _)
relax(G, lengths, k) ==
    IF k = 0 THEN lengths
    ELSE LET seen == DOMAIN lengths
             next == seen \cup {v \in GraphNodes : \E u \in seen : HasEdge(G, u, v)}
             cand(v) == (IF v \in seen THEN {lengths[v]} ELSE {})
                        \cup {lengths[u] + G[<<u, v>>] :
                                 u \in {x \in seen : HasEdge(G, x, v)}}
         IN  relax(G, [v \in next |-> Min(cand(v))], k - 1)

\* nx.single_source_dijkstra_path_length(G, src, weight): the dict of the
\* shortest path length to every node reachable from src, src itself
\* (length 0) included; an unreachable node is no key of it.
single_source_dijkstra_path_length(G, src) ==
    relax(G, [v \in {src} |-> 0], Cardinality(GraphNodes) - 1)

\* nx.shortest_path_length(G, source, target, weight): the length, or
\* NetworkXNoPath raised when target is unreachable.
shortest_path_length(G, source, target) ==
    LET lengths == single_source_dijkstra_path_length(G, source)
    IN  IF target \in DOMAIN lengths
        THEN [err |-> "none", val |-> lengths[target]]
        ELSE [err |-> "NetworkXNoPath", val |-> 0]

(***************************************************************************)
(* raw_walk_and_drive_times_test_2.py: one Dijkstra traversal per source.  *)
(***************************************************************************)

\* np.full((n, n), np.nan) / np.zeros((n, n))
Full(n, v) == [i \in 1..n |-> [j \in 1..n |-> v]]

\* Lines 25-31 with the length from src to tgt written to D[j, i].
compute_full_drive_matrix_transposed(G, nodes) ==
    [i \in 1..Len(nodes) |->
        [j \in 1..Len(nodes) |->
            LET lengths == single_source_dijkstra_path_length(G, nodes[j])
            IN  IF nodes[i] \in DOMAIN lengths
                THEN Num(lengths[nodes[i]]) ELSE NaN]]

\* Lines 25-31.
compute_full_drive_matrix(G, nodes) ==
    [i \in 1..Len(nodes) |->
        LET lengths == single_source_dijkstra_path_length(G, nodes[i])
        IN  [j \in 1..Len(nodes) |->
                IF nodes[j] \in DOMAIN lengths
                THEN Num(lengths[nodes[j]]) ELSE NaN]]

\* dist_m / speed_mps with speed_mps = 1.42 (the same division is line 116
\* of raw_walk_and_drive_times1.py).
walk_secs(dist_m) == Rat(dist_m * 100, 142)

\* Lines 45-49 without the mirrored write of line 49.
walk_write_nomirror(W, G, nodes, i, j) ==
    LET lengths == single_source_dijkstra_path_length(G, nodes[i])
    IN  IF nodes[j] \in DOMAIN lengths
        THEN [W EXCEPT ![i][j] = walk_secs(lengths[nodes[j]])]
        ELSE W

\* Lines 45-49: iteration (i, j) of the double loop.
walk_write(W, G, nodes, i, j) ==
    LET lengths == single_source_dijkstra_path_length(G, nodes[i])
    IN  IF nodes[j] \in DOMAIN lengths
        THEN LET secs == walk_secs(lengths[nodes[j]])
             IN  [W EXCEPT ![i][j] = secs, ![j][i] = secs]
        ELSE W

\* Lines 42-49: the iterations in the order the loops run them, idx counting
\* them from 0: i = idx div n, j = idx mod n.
RECURSIVE walk_loop(_, _, _, _)
walk_loop(W, G, nodes, idx) ==
    LET n == Len(nodes)
    IN  IF idx >= n * n THEN W
        ELSE walk_loop(walk_write(W, G, nodes, (idx \div n) + 1, (idx % n) + 1),
                       G, nodes, idx + 1)

\* Lines 40-50.
compute_full_walk_matrix(G, nodes) ==
    walk_loop(Full(Len(nodes), NaN), G, nodes, 0)

(***************************************************************************)
(* raw_walk_and_drive_times1.py: one query per pair, through pool.map.     *)
(***************************************************************************)

\* Line 65 without its filter i != j.
pairs_drive_all(n) == (1..n) \X (1..n)

\* Lines 64-65.
pairs_walk(n) == {p \in (1..n) \X (1..n) : p[1] < p[2]}

pairs_drive(n) == {p \in (1..n) \X (1..n) : p[1] # p[2]}

\* Lines 78-85 and 108-116: the worker's query for one pair.
drive_time(G, nodes, pair) ==
    shortest_path_length(G, nodes[pair[1]], nodes[pair[2]])

\* pool.map(f, pairs) re-raises in the caller an exception raised by a
\* worker: it returns the results only if every query returned.
PoolMapRaises(G, nodes, pairs) ==
    \E p \in pairs : drive_time(G, nodes, p).err # "none"

\* Lines 87-91: the drive segment of compute_matrices up to the matrix D.
pairwise_drive_matrix(G, nodes) ==
    LET n == Len(nodes)
    IN  IF PoolMapRaises(G, nodes, pairs_drive(n))
        THEN [err |-> "NetworkXNoPath", val |-> <<>>]
        ELSE [err |-> "none",
              val |-> [i \in 1..n |-> [j \in 1..n |->
                          IF i = j THEN Num(0)
                          ELSE Num(drive_time(G, nodes, <<i, j>>).val)]]]

\* Lines 118-122: the walk segment of compute_matrices up to the matrix W;
\* the result of pair (i, j), i < j, is written to W[i, j] and W[j, i].
pairwise_walk_matrix(G, nodes) ==
    LET n == Len(nodes)
        lo(i, j) == IF i < j THEN <<i, j>> ELSE <<j, i>>
    IN  IF PoolMapRaises(G, nodes, pairs_walk(n))
        THEN [err |-> "NetworkXNoPath", val |-> <<>>]
        ELSE [err |-> "none",
              val |-> [i \in 1..n |-> [j \in 1..n |->
                          IF i = j THEN Num(0)
                          ELSE walk_secs(drive_time(G, nodes, lo(i, j)).val)]]]

\* Lines 64-65: the pairs as the lists the comprehensions build, i outer and
\* j inner.
RowMajor(n) == [k \in 1..(n * n) |-> <<((k - 1) \div n) + 1, ((k - 1) % n) + 1>>]

pairs_walk_list(n) == SelectSeq(RowMajor(n), LAMBDA p : p \in pairs_walk(n))

pairs_drive_list(n) == SelectSeq(RowMajor(n), LAMBDA p : p \in pairs_drive(n))

(***************************************************************************)
(* The pool of lines 87-88 and 118-119, one worker result at a time.       *)
(* pool.map keeps a list with one slot per submitted task; a worker's      *)
(* result goes to the slot of its task, and the list is handed back when   *)
(* no slot is left open.                                                   *)
(***************************************************************************)
Pending == [st |-> "pending", err |-> "none", val |-> Num(0)]

\* _drive_time (lines 78-85) and _walk_time (lines 108-116) on one pair.
worker_result(G, nodes, pair, mode) ==
    LET r == drive_time(G, nodes, pair)
    IN  IF r.err # "none" THEN [st |-> "done", err |-> r.err, val |-> Num(0)]
        ELSE [st |-> "done", err |-> "none",
              val |-> IF mode = "walk" THEN walk_secs(r.val) ELSE Num(r.val)]

\* A pool that hands the results back in the order the workers finished.
store_result_unordered(results, idx, r) ==
    LET first == Min({k \in 1..Len(results) : results[k].st = "pending"})
    IN  [results EXCEPT ![first] = r]

\* pool.map: the result of task idx is slot idx of the list returned.
store_result(results, idx, r) == [results EXCEPT ![idx] = r]

\* Line 91 (drive) and line 122 (walk): one iteration of the assembly loop.
assemble_write(M, pair, v, mode) ==
    IF mode = "walk"
    THEN [M EXCEPT ![pair[1]][pair[2]] = v, ![pair[2]][pair[1]] = v]
    ELSE [M EXCEPT ![pair[1]][pair[2]] = v]

\* Lines 89-91 and 120-122: the loop over enumerate(pairs), from idx on.
RECURSIVE assemble_loop(_, _, _, _, _)
assemble_loop(M, pairs, results, idx, mode) ==
    IF idx > Len(pairs) THEN M
    ELSE assemble_loop(assemble_write(M, pairs[idx], results[idx].val, mode),
                       pairs, results, idx + 1, mode)

assemble(n, pairs, results, mode) ==
    assemble_loop(Full(n, Num(0)), pairs, results, 1, mode)

(***************************************************************************)
(* State.                                                                  *)
(***************************************************************************)
VARIABLES
    travel_matrix,   \* the raw matrix T given to the operation
    populations,     \* the population vector
    pc,              \* which operation ran and how far it got
    dtilde,          \* the d-tilde matrix computed, <<>> before
    dmat,            \* the d matrix computed, <<>> before
    err,             \* the exception raised, "none" if none
    ids,             \* the ID column of the tract CSV
    pop_column,      \* the cells of its population column as read
    disk,            \* the files of the output folder: path -> content
    frame,           \* what load_labeled_matrix returned, NoFrame before
    load_args,       \* the path and the ID column load_labeled_matrix got
    graph,           \* the network graph of a raw-matrix computation
    nodes_snapped,   \* nearest_nodes: point index -> graph node
    rcall,           \* the raw-matrix computation that ran, "none" before
    rpc,             \* "start", then "returned" or "raised"
    raw,             \* the matrix D or W returned, <<>> if none
    tasks,           \* the pairs handed to pool.map, in order
    results,         \* pool.map's result list, one slot per task
    late,            \* the tasks whose query ran past the time allowed
    fcall,           \* the function called: a raw-matrix flow or the batch
    fpc,             \* "start", "running", then "returned" or "raised"
    ferr,            \* the exception that left the function, "none" if none
    n_points,        \* rows of the input CSV with valid coordinates
    do_drive,        \* the flags of the raw-matrix functions
    do_walk,
    fseg,            \* the segment the flow is in: "drive", "walk", "done"
    fstage,          \* the statement of the segment that runs next
    computed,        \* the modes whose whole matrix has been computed
    files,           \* the raw matrix files written
    batch_csvs,      \* for each tract CSV its number of population rows
    travel_types,    \* the travel_types argument of batch_process_all
    travel_dims,     \* <<CSV, type>> -> rows of its travel file, 0 if missing
    bpos,            \* position of the batch in its (CSV, type) pairs
    outputs,         \* the pairs whose dtilde and d files were written
    warned,          \* the pairs skipped with a warning
    mpc,             \* where main of master_process_flow4 is, "off" if not run
    mrun             \* which run of main this is

persistVars == <<ids, pop_column, disk, frame, load_args>>

symVars == <<travel_matrix, populations, pc, dtilde, dmat, err,
             ids, pop_column, disk, frame, load_args>>

rawVars == <<graph, nodes_snapped, rcall, rpc, raw, tasks, results, late>>

masterVars == <<mpc, mrun>>

flowVars == <<fcall, fpc, ferr, n_points, do_drive, do_walk, fseg, fstage,
              computed, files, batch_csvs, travel_types, travel_dims, bpos,
              outputs, warned, mpc, mrun>>

vars == <<travel_matrix, populations, pc, dtilde, dmat, err,
          ids, pop_column, disk, frame, load_args,
          graph, nodes_snapped, rcall, rpc, raw, tasks, results, late,
          fcall, fpc, ferr, n_points, do_drive, do_walk, fseg, fstage,
          computed, files, batch_csvs, travel_types, travel_dims, bpos,
          outputs, warned, mpc, mrun>>

TVals == {Num(x) : x \in 0..MaxT} \cup {NaN}

Matrices(n) == [1..n -> [1..n -> TVals]]

PopVectors(m) == [1..m -> 0..MaxPop]

\* The worked scenario of the specification, section 8 item 5.
ScenarioT ==
    << <<Num(0), Num(4), Num(6)>>,
       <<Num(5), Num(0), Num(3)>>,
       <<Num(7), Num(2), Num(0)>> >>

ScenarioPop == <<0, 10, 20>>

\* The scenario's populations in every arrangement over its three points.
ScenarioPops == [1..3 -> {0, 10, 20}]

\* A cell of the population column: a number, an empty cell or a text.
CsvNum(v) == [kind |-> "num", v |-> v]

CsvMissing == [kind |-> "missing", v |-> 0]

CsvText == [kind |-> "text", v |-> 0]

CsvCells == {CsvNum(v) : v \in 0..MaxPop} \cup {CsvMissing, CsvText}

\* A column whose cells are the numbers of pops.
NumericColumn(pops) == [k \in 1..Len(pops) |-> CsvNum(pops[k])]

\* pd.to_numeric(..., errors='coerce'), line 87: what does not parse as a
\* number, and an empty cell, become NaN.
to_numeric(cell) ==
    IF cell.kind = "num" THEN [nan |-> FALSE, v |-> cell.v]
    ELSE [nan |-> TRUE, v |-> 0]

\* Series.fillna(fill), line 87.
fillna(x, fill) == IF x.nan THEN fill ELSE x.v

\* The column with its NaN cells filled by 1.
population_values_fill_one(column) ==
    [k \in 1..Len(column) |-> fillna(to_numeric(column[k]), 1)]

\* Line 87: the populations process_files computes with.
population_values(column) ==
    [k \in 1..Len(column) |-> fillna(to_numeric(column[k]), 0)]

\* No test of the row count at all.
process_files_accepts(dim, rows) == FALSE

\* process_files on a travel matrix of dim rows and a CSV of rows population
\* entries, lines 94-95.
process_files_raises(dim, rows) == dim # rows

\* The ID columns of the tract CSVs at hand.
TractCsvs == {<<"A">>, <<"A", "B">>, <<"B", "A">>, <<"A", "B", "C">>}

TractIds(m) == {c \in TractCsvs : Len(c) = m}

\* Nothing has been written or loaded.
PersistIdle ==
    /\ disk = <<>>
    /\ frame = NoFrame
    /\ load_args = <<>>

\* No raw-matrix flow and no batch takes part.
FlowIdle ==
    /\ fcall = "none"
    /\ fpc = "off"
    /\ ferr = "none"
    /\ n_points = 0
    /\ do_drive = FALSE
    /\ do_walk = FALSE
    /\ fseg = "done"
    /\ fstage = 1
    /\ computed = {}
    /\ files = {}
    /\ batch_csvs = <<>>
    /\ travel_types = [is_str |-> FALSE, str |-> "", list |-> <<>>]
    /\ travel_dims = <<>>
    /\ bpos = 1
    /\ outputs = {}
    /\ warned = {}
    /\ mpc = "off"
    /\ mrun = 1

\* No raw-matrix computation takes part.
RawIdle ==
    /\ graph = [e \in EdgeSlots |-> 0]
    /\ nodes_snapped = <<>>
    /\ rcall = "none"
    /\ rpc = "off"
    /\ raw = <<>>
    /\ tasks = <<>>
    /\ results = <<>>
    /\ late = {}

\* No symmetrization takes part.
SymIdle ==
    /\ travel_matrix = <<>>
    /\ populations = <<>>
    /\ pc = "off"
    /\ dtilde = <<>>
    /\ dmat = <<>>
    /\ err = "none"
    /\ ids = <<>>
    /\ pop_column = <<>>
    /\ PersistIdle

Init ==
    /\ RawIdle
    /\ FlowIdle
    /\ \/ \E n \in Dims, m \in PopLens :
            /\ travel_matrix \in Matrices(n)
            /\ populations \in PopVectors(m)
       \/ /\ travel_matrix = ScenarioT
          /\ populations \in ScenarioPops
    /\ ids \in TractIds(Len(populations))
    /\ pop_column = NumericColumn(populations)
    /\ PersistIdle
    /\ pc = "start"
    /\ dtilde = <<>>
    /\ dmat = <<>>
    /\ err = "none"

\* Line 37 storing into travel_matrix instead of the fresh dtilde.
dtilde_args_inplace(tm, pops) ==
    <<[i \in 1..Len(tm) |-> [j \in 1..Len(tm[i]) |-> nan_to_zero(tm[i][j])]],
      pops>>

\* The arguments of compute_dtilde_matrix after the call: lines 28-39 bind
\* p_i, p_j and dtilde, and the one indexed store, line 37, is into dtilde,
\* the array line 35 allocated.
dtilde_args_after(tm, pops) == <<tm, pops>>

\* The arguments of compute_d_matrix after the call returned d: the stores
\* of lines 59-70 are into d_matrix, the array np.zeros allocated (line 50).
d_args_after(m, pops, d) == <<m, pops>>

\* A direct call compute_dtilde_matrix(travel_matrix, populations).
CallDtilde ==
    /\ pc = "start"
    /\ LET r == compute_dtilde_matrix(travel_matrix, populations)
           args == dtilde_args_after(travel_matrix, populations)
       IN  /\ dtilde' = r.val
           /\ err' = r.err
           /\ pc' = IF r.err = "none" THEN "dtilde_returned" ELSE "dtilde_raised"
           /\ travel_matrix' = args[1]
           /\ populations' = args[2]
    /\ UNCHANGED dmat
    /\ UNCHANGED persistVars
    /\ UNCHANGED rawVars
    /\ UNCHANGED flowVars

\* A direct call compute_d_matrix(travel_matrix, populations): the matrix
\* argument is any square matrix.
CallD ==
    /\ pc = "start"
    /\ LET r == compute_d_matrix(travel_matrix, populations)
           args == d_args_after(travel_matrix, populations, r.val)
       IN  /\ dmat' = r.val
           /\ err' = r.err
           /\ pc' = IF r.err = "none" THEN "d_returned" ELSE "d_raised"
           /\ travel_matrix' = args[1]
           /\ populations' = args[2]
    /\ UNCHANGED dtilde
    /\ UNCHANGED persistVars
    /\ UNCHANGED rawVars
    /\ UNCHANGED flowVars

\* process_files, lines 85-95: the population column is made numeric, the
\* travel matrix is loaded, then the dimension test.
ProcessFilesLoad ==
    /\ pc = "start"
    /\ populations' = population_values(pop_column)
    /\ IF process_files_raises(Len(travel_matrix), Len(populations'))
       THEN pc' = "pf_raised" /\ err' = "ValueError"
       ELSE pc' = "pf_loaded" /\ err' = err
    /\ UNCHANGED <<travel_matrix, dtilde, dmat>>
    /\ UNCHANGED persistVars
    /\ UNCHANGED rawVars
    /\ UNCHANGED flowVars

\* process_files, line 98.
ProcessFilesDtilde ==
    /\ pc = "pf_loaded"
    /\ LET r == compute_dtilde_matrix(travel_matrix, populations)
           args == dtilde_args_after(travel_matrix, populations)
       IN  /\ dtilde' = r.val
           /\ err' = r.err
           /\ pc' = IF r.err = "none" THEN "pf_dtilde" ELSE "pf_raised"
           /\ travel_matrix' = args[1]
           /\ populations' = args[2]
    /\ UNCHANGED dmat
    /\ UNCHANGED persistVars
    /\ UNCHANGED rawVars
    /\ UNCHANGED flowVars

\* process_files, line 100.
ProcessFilesD ==
    /\ pc = "pf_dtilde"
    /\ LET r == compute_d_matrix(dtilde, populations)
           args == d_args_after(dtilde, populations, r.val)
       IN  /\ dmat' = r.val
           /\ err' = r.err
           /\ pc' = IF r.err = "none" THEN "pf_d" ELSE "pf_raised"
           /\ dtilde' = args[1]
           /\ populations' = args[2]
    /\ UNCHANGED travel_matrix
    /\ UNCHANGED persistVars
    /\ UNCHANGED rawVars
    /\ UNCHANGED flowVars

\* The file name of the tract CSV without its ending, line 103.
BaseName == "CityX"

\* process_files, lines 103-118: the dtilde and d files are written.
ProcessFilesSave ==
    /\ pc = "pf_d"
    /\ \E travel_type \in {"drive", "walk"} :
          disk' = save_outputs(disk, BaseName, travel_type, dtilde, dmat, ids)
    /\ pc' = "pf_saved"
    /\ UNCHANGED <<travel_matrix, populations, dtilde, dmat, err>>
    /\ UNCHANGED <<ids, pop_column, frame, load_args>>
    /\ UNCHANGED rawVars
    /\ UNCHANGED flowVars

Next ==
    \/ CallDtilde
    \/ CallD
    \/ ProcessFilesLoad
    \/ ProcessFilesDtilde
    \/ ProcessFilesD
    \/ ProcessFilesSave

Spec == Init /\ [][Next]_vars

(***************************************************************************)
(* Saving and reloading: process_files on a matrix and a population vector *)
(* of its size, or an array of any shape already in the folder, and then   *)
(* load_labeled_matrix on one of the .npy files with one of the tract CSVs.*)
(***************************************************************************)

\* An r x c array whose cells all differ.
Stored(r, c) == [i \in 1..r |-> [j \in 1..c |-> Num((i - 1) * c + j)]]

InitPersist ==
    /\ RawIdle
    /\ FlowIdle
    /\ frame = NoFrame
    /\ load_args = <<>>
    /\ dtilde = <<>>
    /\ dmat = <<>>
    /\ err = "none"
    /\ \/ /\ \/ \E n \in Dims :
                    /\ travel_matrix \in Matrices(n)
                    /\ populations \in PopVectors(n)
             \/ /\ travel_matrix = ScenarioT
                /\ populations \in ScenarioPops
          /\ ids \in TractIds(Len(populations))
          /\ pop_column = NumericColumn(populations)
          /\ disk = <<>>
          /\ pc = "start"
       \/ /\ travel_matrix = <<>>
          /\ populations = <<>>
          /\ ids = <<>>
          /\ pop_column = <<>>
          /\ \E r \in PopLens, c \in PopLens :
                disk = [path \in {<<"stored", "npy">>} |-> np_save(Stored(r, c))]
          /\ pc = "on_disk"

\* A call load_labeled_matrix(npy_path, tract_csv_path).
LoadLabeled ==
    /\ pc \in {"pf_saved", "on_disk"}
    /\ \E path \in DOMAIN disk, csv_ids \in TractCsvs :
          /\ disk[path].fmt = "npy"
          /\ load_args' = <<path, csv_ids>>
          /\ frame' = load_labeled_matrix(disk[path], csv_ids)
          /\ pc' = IF frame'.err = "none" THEN "loaded" ELSE "load_raised"
    /\ UNCHANGED <<travel_matrix, populations, dtilde, dmat, err, ids,
                   pop_column, disk>>
    /\ UNCHANGED rawVars
    /\ UNCHANGED flowVars

NextPersist ==
    \/ ProcessFilesLoad
    \/ ProcessFilesDtilde
    \/ ProcessFilesD
    \/ ProcessFilesSave
    \/ LoadLabeled

SpecPersist == InitPersist /\ [][NextPersist]_vars

(***************************************************************************)
(* process_files from its two input files to its four output files: a      *)
(* travel matrix, a tract CSV whose population column has numbers, empty   *)
(* cells and text, of the matrix's size or not, and an output folder that  *)
(* is empty or holds the files of an earlier run.                          *)
(***************************************************************************)

\* The walk files of an earlier run on a one-tract CSV.
OlderOutputs ==
    save_outputs(<<>>, BaseName, "walk", <<<<Num(0)>>>>, <<<<Num(0)>>>>, <<"Z">>)

InitFiles ==
    /\ RawIdle
    /\ FlowIdle
    /\ frame = NoFrame
    /\ load_args = <<>>
    /\ populations = <<>>
    /\ dtilde = <<>>
    /\ dmat = <<>>
    /\ err = "none"
    /\ pc = "start"
    /\ \E n \in Dims, m \in PopLens :
          /\ travel_matrix \in Matrices(n)
          /\ pop_column \in [1..m -> CsvCells]
          /\ ids \in TractIds(m)
    /\ disk \in {<<>>, OlderOutputs}

NextFiles ==
    \/ ProcessFilesLoad
    \/ ProcessFilesDtilde
    \/ ProcessFilesD
    \/ ProcessFilesSave

SpecFiles == InitFiles /\ [][NextFiles]_vars

(***************************************************************************)
(* The raw-matrix computations on a graph and a node mapping.              *)
(***************************************************************************)
NodeMappings == UNION {[1..n -> GraphNodes] : n \in 1..MaxPts}

InitRaw ==
    /\ SymIdle
    /\ FlowIdle
    /\ graph \in Graphs
    /\ nodes_snapped \in NodeMappings
    /\ rcall = "none"
    /\ rpc = "start"
    /\ raw = <<>>
    /\ tasks = <<>>
    /\ results = <<>>
    /\ late = {}

\* compute_matrices_dijkstra, line 101.
FullDrive ==
    /\ rpc = "start"
    /\ rcall' = "full_drive"
    /\ raw' = compute_full_drive_matrix(graph, nodes_snapped)
    /\ rpc' = "returned"
    /\ UNCHANGED <<graph, nodes_snapped, tasks, results, late>>
    /\ UNCHANGED symVars
    /\ UNCHANGED flowVars

\* compute_matrices_dijkstra, line 117.
FullWalk ==
    /\ rpc = "start"
    /\ rcall' = "full_walk"
    /\ raw' = compute_full_walk_matrix(graph, nodes_snapped)
    /\ rpc' = "returned"
    /\ UNCHANGED <<graph, nodes_snapped, tasks, results, late>>
    /\ UNCHANGED symVars
    /\ UNCHANGED flowVars

\* compute_matrices, lines 65 and 87-91.
PairDrive ==
    /\ rpc = "start"
    /\ rcall' = "pair_drive"
    /\ tasks' = pairs_drive_list(Len(nodes_snapped))
    /\ LET r == pairwise_drive_matrix(graph, nodes_snapped)
       IN  /\ raw' = r.val
           /\ rpc' = IF r.err = "none" THEN "returned" ELSE "raised"
    /\ UNCHANGED <<graph, nodes_snapped, results, late>>
    /\ UNCHANGED symVars
    /\ UNCHANGED flowVars

\* compute_matrices, lines 64 and 118-122.
PairWalk ==
    /\ rpc = "start"
    /\ rcall' = "pair_walk"
    /\ tasks' = pairs_walk_list(Len(nodes_snapped))
    /\ LET r == pairwise_walk_matrix(graph, nodes_snapped)
       IN  /\ raw' = r.val
           /\ rpc' = IF r.err = "none" THEN "returned" ELSE "raised"
    /\ UNCHANGED <<graph, nodes_snapped, results, late>>
    /\ UNCHANGED symVars
    /\ UNCHANGED flowVars

NextRaw ==
    \/ FullDrive
    \/ FullWalk
    \/ PairDrive
    \/ PairWalk

SpecRaw == InitRaw /\ [][NextRaw]_vars

(***************************************************************************)
(* The pairwise strategy with its pool shown: the workers finish in any    *)
(* order, each after any time.  The graphs are the unit-weight subgraphs   *)
(* of the directed ring 1 -> 2 -> 3 -> 1, on which the cost from a node to *)
(* another differs from the cost back and some nodes cannot be reached.    *)
(***************************************************************************)
PoolGraphs ==
    {G \in [EdgeSlots -> {0, 1}] :
        G[<<1, 3>>] = 0 /\ G[<<3, 2>>] = 0 /\ G[<<2, 1>>] = 0}

PoolMode == IF rcall = "pair_walk" THEN "walk" ELSE "drive"

InitPool ==
    /\ SymIdle
    /\ FlowIdle
    /\ graph \in PoolGraphs
    /\ nodes_snapped \in NodeMappings
    /\ rcall = "none"
    /\ rpc = "start"
    /\ raw = <<>>
    /\ tasks = <<>>
    /\ results = <<>>
    /\ late = {}

\* Lines 87-88 / 118-119: pool.map is called with the list of pairs.
PoolSubmit ==
    /\ rpc = "start"
    /\ \E mode \in {"drive", "walk"} :
          /\ rcall' = "pair_" \o mode
          /\ tasks' = IF mode = "drive" THEN pairs_drive_list(Len(nodes_snapped))
                      ELSE pairs_walk_list(Len(nodes_snapped))
    /\ results' = [k \in 1..Len(tasks') |-> Pending]
    /\ rpc' = "mapping"
    /\ UNCHANGED <<graph, nodes_snapped, raw, late>>
    /\ UNCHANGED symVars
    /\ UNCHANGED flowVars

\* A worker finishes the query of one task, within the time allowed or
\* after it: neither the worker (lines 78-85) nor the call of pool.map
\* (line 88) has a timeout, so its result is stored all the same.
WorkerFinish ==
    /\ rpc = "mapping"
    /\ \E idx \in 1..Len(tasks), overran \in BOOLEAN :
          /\ results[idx].st = "pending"
          /\ results' = store_result(results, idx,
                            worker_result(graph, nodes_snapped, tasks[idx], PoolMode))
          /\ late' = IF overran THEN late \cup {idx} ELSE late
    /\ UNCHANGED <<graph, nodes_snapped, rcall, rpc, raw, tasks>>
    /\ UNCHANGED symVars
    /\ UNCHANGED flowVars

\* pool.map returns once every task is done, or re-raises the exception of
\* a worker; lines 89-91 / 120-122 then assemble the matrix.
PoolMapReturn ==
    /\ rpc = "mapping"
    /\ \A k \in 1..Len(tasks) : results[k].st = "done"
    /\ IF \E k \in 1..Len(tasks) : results[k].err # "none"
       THEN rpc' = "raised" /\ raw' = raw
       ELSE /\ rpc' = "returned"
            /\ raw' = assemble(Len(nodes_snapped), tasks, results, PoolMode)
    /\ UNCHANGED <<graph, nodes_snapped, rcall, tasks, results, late>>
    /\ UNCHANGED symVars
    /\ UNCHANGED flowVars

NextPool ==
    \/ PoolSubmit
    \/ WorkerFinish
    \/ PoolMapReturn

SpecPool == InitPool /\ [][NextPool]_vars

(***************************************************************************)
(* A drive matrix and its symmetrization: one of the two drive             *)
(* computations returns D for a network with one-way edges, and D is then  *)
(* given, with a population vector of its size, to compute_dtilde_matrix   *)
(* or to compute_d_matrix.                                                 *)
(***************************************************************************)
InitDrive ==
    /\ SymIdle
    /\ FlowIdle
    /\ graph \in PoolGraphs
    /\ nodes_snapped \in NodeMappings
    /\ rcall = "none"
    /\ rpc = "start"
    /\ raw = <<>>
    /\ tasks = <<>>
    /\ results = <<>>
    /\ late = {}

\* The drive matrix is taken as the travel matrix, with the populations of
\* its points.
LoadDriveMatrix ==
    /\ rcall \in {"full_drive", "pair_drive"}
    /\ rpc = "returned"
    /\ pc = "off"
    /\ travel_matrix' = raw
    /\ populations' \in PopVectors(Len(raw))
    /\ pc' = "start"
    /\ UNCHANGED <<dtilde, dmat, err>>
    /\ UNCHANGED persistVars
    /\ UNCHANGED rawVars
    /\ UNCHANGED flowVars

NextDrive ==
    \/ FullDrive
    \/ PairDrive
    \/ LoadDriveMatrix
    \/ CallDtilde
    \/ CallD

SpecDrive == InitDrive /\ [][NextDrive]_vars

(***************************************************************************)
(* The two raw-matrix functions from the CSV to the saved files, and       *)
(* batch_process_all.  What the network provider, the snapping and the     *)
(* graph answer is the environment's choice.                               *)
(***************************************************************************)
MaxFiles == 2

RawFunctions == {"compute_matrices", "compute_matrices_dijkstra"}

\* A segment that saves its matrix before the points are snapped.
SegmentStagesSaveFirst == <<"graph", "save", "nodes", "matrix">>

\* The statements of a segment in their order: test_2 lines 88-103 and
\* 109-119, raw_walk_and_drive_times1 lines 72-96 and 104-127.
SegmentStages == <<"graph", "nodes", "matrix", "save">>

\* test_2 lines 75-76; compute_matrices has no such test (lines 56-61).
empty_check(f, n) == f = "compute_matrices_dijkstra" /\ n = 0

\* "if do_drive:" and "if do_walk:": the segment run after segment seg.
next_seg(seg, drive, walk) ==
    IF seg = "start" /\ drive THEN "drive"
    ELSE IF seg \in {"start", "drive"} /\ walk THEN "walk"
    ELSE "done"

\* test_2 lines 102 and 118; raw_walk_and_drive_times1 lines 92-95, 123-126.
raw_path(f, mode) ==
    IF f = "compute_matrices_dijkstra"
    THEN <<"{city}{state}", "_", mode, "_", "{today}", ".npy">>
    ELSE <<mode, "_time_", "{city}", "_", "{state}", "_", "{today}", ".npy">>

\* The flow enters segment seg, or returns when no segment is left.
EnterSegment(seg) ==
    /\ fseg' = seg
    /\ fstage' = 1
    /\ fpc' = IF seg = "done" THEN "returned" ELSE "running"

RawRunning(step) ==
    /\ fcall \in RawFunctions
    /\ fpc = "running"
    /\ SegmentStages[fstage] = step

BatchVarsUnchanged ==
    UNCHANGED <<batch_csvs, travel_types, travel_dims, bpos, outputs, warned>>

\* The CSV is read and the rows without coordinates are dropped.
LoadPoints ==
    /\ fcall \in RawFunctions
    /\ fpc = "start"
    /\ IF empty_check(fcall, n_points)
       THEN /\ fpc' = "raised"
            /\ ferr' = "ValueError"
            /\ UNCHANGED <<fseg, fstage>>
       ELSE /\ EnterSegment(next_seg("start", do_drive, do_walk))
            /\ ferr' = ferr
    /\ UNCHANGED <<fcall, n_points, do_drive, do_walk, computed, files>>
    /\ BatchVarsUnchanged
    /\ UNCHANGED masterVars
    /\ UNCHANGED symVars
    /\ UNCHANGED rawVars

\* ox.graph_from_bbox / ox.graph_from_place and the edge attributes: the
\* provider answers or fails; the exception leaves the function, which has
\* no handler.
BuildGraph ==
    /\ RawRunning("graph")
    /\ \E ok \in BOOLEAN :
          IF ok
          THEN /\ fstage' = fstage + 1
               /\ UNCHANGED <<fpc, ferr>>
          ELSE /\ fpc' = "raised"
               /\ ferr' = "GraphUnavailable"
               /\ fstage' = fstage
    /\ UNCHANGED <<fcall, n_points, do_drive, do_walk, fseg, computed, files>>
    /\ BatchVarsUnchanged
    /\ UNCHANGED masterVars
    /\ UNCHANGED symVars
    /\ UNCHANGED rawVars

\* ox.distance.nearest_nodes: it returns the nodes or raises, which is also
\* what it may do on an empty point set.
SnapNodes ==
    /\ RawRunning("nodes")
    /\ \E ok \in BOOLEAN :
          IF ok
          THEN /\ fstage' = fstage + 1
               /\ UNCHANGED <<fpc, ferr>>
          ELSE /\ fpc' = "raised"
               /\ ferr' = "SnapError"
               /\ fstage' = fstage
    /\ UNCHANGED <<fcall, n_points, do_drive, do_walk, fseg, computed, files>>
    /\ BatchVarsUnchanged
    /\ UNCHANGED masterVars
    /\ UNCHANGED symVars
    /\ UNCHANGED rawVars

\* The matrix of the segment: the per-source functions return one whatever
\* the graph; pool.map re-raises NetworkXNoPath when a pair is unreachable,
\* which takes two points.
ComputeMatrix ==
    /\ RawRunning("matrix")
    /\ \E ok \in BOOLEAN :
          /\ ~ok => (fcall = "compute_matrices" /\ n_points >= 2)
          /\ IF ok
             THEN /\ fstage' = fstage + 1
                  /\ computed' = computed \cup {fseg}
                  /\ UNCHANGED <<fpc, ferr>>
             ELSE /\ fpc' = "raised"
                  /\ ferr' = "NetworkXNoPath"
                  /\ UNCHANGED <<fstage, computed>>
    /\ UNCHANGED <<fcall, n_points, do_drive, do_walk, fseg, files>>
    /\ BatchVarsUnchanged
    /\ UNCHANGED masterVars
    /\ UNCHANGED symVars
    /\ UNCHANGED rawVars

\* np.save of the segment's matrix; the next segment or the return follows.
SaveMatrix ==
    /\ RawRunning("save")
    /\ files' = files \cup {[path |-> raw_path(fcall, fseg), mode |-> fseg,
                             n |-> n_points]}
    /\ IF fstage = Len(SegmentStages)
       THEN EnterSegment(next_seg(fseg, do_drive, do_walk))
       ELSE fstage' = fstage + 1 /\ UNCHANGED <<fseg, fpc>>
    /\ UNCHANGED <<fcall, ferr, n_points, do_drive, do_walk, computed>>
    /\ BatchVarsUnchanged
    /\ UNCHANGED masterVars
    /\ UNCHANGED symVars
    /\ UNCHANGED rawVars

\* A string argument ignored in favour of the two default types.
travel_type_list_default(arg) ==
    IF arg.is_str THEN <<"drive", "walk">> ELSE arg.list

\* Lines 132-133 of compute_t_matrices_1.py.
travel_type_list(arg) == IF arg.is_str THEN <<arg.str>> ELSE arg.list

\* Lines 139-143: the (CSV, type) pairs in the order of the two loops.
batch_pairs(csvs, types) ==
    [k \in 1..(Len(csvs) * Len(types)) |->
        <<((k - 1) \div Len(types)) + 1, types[((k - 1) % Len(types)) + 1]>>]

BatchPairs == batch_pairs(batch_csvs, travel_type_list(travel_types))

RawVarsOfFlowUnchanged ==
    UNCHANGED <<n_points, do_drive, do_walk, fseg, fstage, computed, files>>

\* Lines 141-152: one pass of the inner loop.
BatchIteration ==
    /\ fcall = "batch_process_all"
    /\ fpc = "running"
    /\ bpos <= Len(BatchPairs)
    /\ LET pair == BatchPairs[bpos]
       IN  IF travel_dims[pair] = 0
           THEN /\ warned' = warned \cup {pair}
                /\ bpos' = bpos + 1
                /\ UNCHANGED <<fpc, ferr, outputs>>
           ELSE IF process_files_raises(travel_dims[pair], batch_csvs[pair[1]])
           THEN /\ fpc' = "raised"
                /\ ferr' = "ValueError"
                /\ UNCHANGED <<bpos, outputs, warned>>
           ELSE /\ outputs' = outputs \cup {pair}
                /\ bpos' = bpos + 1
                /\ UNCHANGED <<fpc, ferr, warned>>
    /\ UNCHANGED <<fcall, batch_csvs, travel_types, travel_dims>>
    /\ RawVarsOfFlowUnchanged
    /\ UNCHANGED masterVars
    /\ UNCHANGED symVars
    /\ UNCHANGED rawVars

\* The loops are over: batch_process_all returns.
BatchReturn ==
    /\ fcall = "batch_process_all"
    /\ fpc = "running"
    /\ bpos > Len(BatchPairs)
    /\ fpc' = "returned"
    /\ UNCHANGED <<fcall, ferr, batch_csvs, travel_types, travel_dims, bpos,
                   outputs, warned>>
    /\ RawVarsOfFlowUnchanged
    /\ UNCHANGED masterVars
    /\ UNCHANGED symVars
    /\ UNCHANGED rawVars

TravelTypeArgs ==
    {[is_str |-> FALSE, str |-> "", list |-> <<"drive", "walk">>],
     [is_str |-> TRUE, str |-> "walk", list |-> <<>>]}

InitFlow ==
    /\ SymIdle
    /\ RawIdle
    /\ ferr = "none"
    /\ computed = {}
    /\ files = {}
    /\ fstage = 1
    /\ bpos = 1
    /\ outputs = {}
    /\ warned = {}
    /\ mpc = "off"
    /\ mrun = 1
    /\ \/ /\ fcall \in RawFunctions
          /\ fpc = "start"
          /\ n_points \in 0..MaxPts
          /\ do_drive \in BOOLEAN
          /\ do_walk \in BOOLEAN
          /\ fseg = "start"
          /\ batch_csvs = <<>>
          /\ travel_types = [is_str |-> FALSE, str |-> "", list |-> <<>>]
          /\ travel_dims = <<>>
       \/ /\ fcall = "batch_process_all"
          /\ fpc = "running"
          /\ n_points = 0
          /\ do_drive = FALSE
          /\ do_walk = FALSE
          /\ fseg = "done"
          /\ \E k \in 1..MaxFiles : batch_csvs \in [1..k -> Dims]
          /\ travel_types \in TravelTypeArgs
          /\ travel_dims \in [(1..Len(batch_csvs)) \X {"drive", "walk"} ->
                                 {0} \cup Dims]

NextFlow ==
    \/ LoadPoints
    \/ BuildGraph
    \/ SnapNodes
    \/ ComputeMatrix
    \/ SaveMatrix
    \/ BatchIteration
    \/ BatchReturn

SpecFlow == InitFlow /\ [][NextFlow]_vars

(***************************************************************************)
(* main of master_process_flow4 for its one city, from step 3 on, run and  *)
(* run again on the same date.  The calls of compute_matrices_dijkstra and *)
(* of batch_process_all proceed by the steps above.  A file name is the    *)
(* sequence of the pieces its f-string joins.                              *)
(***************************************************************************)
MaxRuns == 2

\* master_process_flow4 lines 72-79: the names step 3 looks for.
master_raw_path(mode) ==
    <<mode, "_time_", "{city}", "_", "{state}", "_", "{today}", ".npy">>

\* master_process_flow4 lines 61-64 and 97.
tract_file == <<"{city}{state}", "_tract_data.csv">>

\* compute_t_matrices_1 line 141: the file name without '_tract_data.csv'.
base_name(csv_file) == SubSeq(csv_file, 1, Len(csv_file) - 1)

\* compute_t_matrices_1 line 145: f"{base_name}_{ttype}.npy".
travel_file(base, ttype) == base \o <<"_", ttype, ".npy">>

\* os.path.exists on a file of the travel folder.
path_exists(folder, path) == \E f \in folder : f.path = path

\* The rows of the matrix in the file, 0 when there is no such file.
file_rows(folder, path) ==
    IF path_exists(folder, path)
    THEN (CHOOSE f \in folder : f.path = path).n
    ELSE 0

\* Files the travel folder may hold before the first run: matrices under
\* the names step 3 looks for and under the names step 4 looks for.
EarlierFiles(n) ==
    {[path |-> master_raw_path(mode), mode |-> mode, n |-> n] :
        mode \in {"drive", "walk"}}
    \cup {[path |-> travel_file(base_name(tract_file), mode), mode |-> mode,
           n |-> n] : mode \in {"drive", "walk"}}

InitMaster ==
    /\ SymIdle
    /\ RawIdle
    /\ mpc = "step3"
    /\ mrun = 1
    /\ fcall = "none"
    /\ fpc = "off"
    /\ ferr = "none"
    /\ n_points \in 1..MaxPts
    /\ do_drive = FALSE
    /\ do_walk = FALSE
    /\ fseg = "done"
    /\ fstage = 1
    /\ computed = {}
    /\ files \in SUBSET EarlierFiles(n_points)
    /\ batch_csvs = <<>>
    /\ travel_types = [is_str |-> FALSE, str |-> "", list |-> <<>>]
    /\ travel_dims = <<>>
    /\ bpos = 1
    /\ outputs = {}
    /\ warned = {}

\* Step 3, lines 70-105: skipped when both files are there, else
\* compute_matrices_dijkstra is called for what is missing.
MasterStep3 ==
    /\ mpc = "step3"
    /\ LET drive_exists == path_exists(files, master_raw_path("drive"))
           walk_exists == path_exists(files, master_raw_path("walk"))
       IN  IF drive_exists /\ walk_exists
           THEN /\ mpc' = "step4"
                /\ UNCHANGED <<fcall, fpc, ferr, do_drive, do_walk, fseg, fstage>>
           ELSE /\ mpc' = "in3"
                /\ fcall' = "compute_matrices_dijkstra"
                /\ fpc' = "start"
                /\ ferr' = "none"
                /\ do_drive' = ~drive_exists
                /\ do_walk' = ~walk_exists
                /\ fseg' = "start"
                /\ fstage' = 1
    /\ UNCHANGED <<mrun, n_points, computed, files>>
    /\ BatchVarsUnchanged
    /\ UNCHANGED symVars
    /\ UNCHANGED rawVars

\* Step 4, lines 107-114, reached when step 3 was skipped or its call
\* returned: batch_process_all on the tract folder and the travel folder.
MasterStep4 ==
    /\ mpc = "step4" \/ (mpc = "in3" /\ fpc = "returned")
    /\ mpc' = "in4"
    /\ fcall' = "batch_process_all"
    /\ fpc' = "running"
    /\ batch_csvs' = <<n_points>>
    /\ travel_types' = [is_str |-> FALSE, str |-> "", list |-> <<"drive", "walk">>]
    /\ travel_dims' =
          [pair \in {1} \X {"drive", "walk"} |->
              file_rows(files, travel_file(base_name(tract_file), pair[2]))]
    /\ bpos' = 1
    /\ outputs' = {}
    /\ warned' = {}
    /\ UNCHANGED <<ferr, mrun>>
    /\ RawVarsOfFlowUnchanged
    /\ UNCHANGED symVars
    /\ UNCHANGED rawVars

\* main has returned.
MainReturned == mpc = "in4" /\ fpc = "returned"

\* main is started again on the same date, on the folders as they are.
MasterRerun ==
    /\ MainReturned
    /\ mrun < MaxRuns
    /\ mrun' = mrun + 1
    /\ mpc' = "step3"
    /\ fcall' = "none"
    /\ fpc' = "off"
    /\ do_drive' = FALSE
    /\ do_walk' = FALSE
    /\ computed' = {}
    /\ UNCHANGED <<ferr, n_points, fseg, fstage, files>>
    /\ BatchVarsUnchanged
    /\ UNCHANGED symVars
    /\ UNCHANGED rawVars

NextMaster ==
    \/ MasterStep3
    \/ LoadPoints
    \/ BuildGraph
    \/ SnapNodes
    \/ ComputeMatrix
    \/ SaveMatrix
    \/ MasterStep4
    \/ BatchIteration
    \/ BatchReturn
    \/ MasterRerun

SpecMaster == InitMaster /\ [][NextMaster]_vars

(***************************************************************************)
(* Properties.                                                             *)
(***************************************************************************)

\* q is the finite number num / den.
EqRat(q, num, den) == IsFinite(q) /\ den > 0 /\ q.n * den = num * q.d

AllFinite(tm) == \A i, j \in 1..Len(tm) : IsFinite(tm[i][j])

\* compute_dtilde_matrix has returned, called directly or by process_files,
\* on a population vector as long as the matrix is wide.
DtildeDone ==
    /\ pc \in {"dtilde_returned", "pf_dtilde", "pf_d"}
    /\ Len(populations) = Len(travel_matrix)

\* (p[i]*T[i,j] + p[j]*T[j,i]) / (p[i] + p[j]) as numerator and denominator.
WeightedNum(tm, pops, i, j) ==
    pops[i] * tm[i][j].n * tm[j][i].d + pops[j] * tm[j][i].n * tm[i][j].d

WeightedDen(tm, pops, i, j) ==
    tm[i][j].d * tm[j][i].d * (pops[i] + pops[j])

\* C1: for a matrix T of finite entries, compute_dtilde_matrix returns an
\* n x n matrix with dtilde[i,j] = (p[i]*T[i,j] + p[j]*T[j,i]) / (p[i]+p[j])
\* where p[i] + p[j] > 0, and dtilde[i,j] = 0 where p[i] = p[j] = 0.
C1_DtildeFormula ==
    (DtildeDone /\ AllFinite(travel_matrix)) =>
        /\ Len(dtilde) = Len(travel_matrix)
        /\ \A i, j \in 1..Len(travel_matrix) :
              /\ Len(dtilde[i]) = Len(travel_matrix)
              /\ IF populations[i] + populations[j] > 0
                 THEN EqRat(dtilde[i][j],
                            WeightedNum(travel_matrix, populations, i, j),
                            WeightedDen(travel_matrix, populations, i, j))
                 ELSE dtilde[i][j] = Num(0)

C1_Witness ==
    /\ pc = "dtilde_returned"
    /\ populations = <<1, 2>>
    /\ Len(travel_matrix) = 2
    /\ AllFinite(travel_matrix)
    /\ travel_matrix[1][2] = Num(1)
    /\ travel_matrix[2][1] = Num(2)
    /\ EqRat(dtilde[1][2], 5, 3)

\* C2: compute_d_matrix(M, p) on an n x n matrix M and p of length n
\* returns d with d[i,j] = 0 if p[i] = p[j] = 0, M[j,i] if only p[i] = 0,
\* M[i,j] if only p[j] = 0, and (p[i]*M[i,j] + p[j]*M[j,i]) / (p[i]+p[j])
\* otherwise (NaN if one of the two entries is NaN).
C2_DFormula ==
    (pc = "d_returned" /\ Len(populations) = Len(travel_matrix)) =>
        /\ Len(dmat) = Len(travel_matrix)
        /\ \A i, j \in 1..Len(travel_matrix) :
              /\ Len(dmat[i]) = Len(travel_matrix)
              /\ IF populations[i] = 0 /\ populations[j] = 0
                     THEN dmat[i][j] = Num(0)
                 ELSE IF populations[i] = 0
                     THEN dmat[i][j] = travel_matrix[j][i]
                 ELSE IF populations[j] = 0
                     THEN dmat[i][j] = travel_matrix[i][j]
                 ELSE IF IsNaN(travel_matrix[i][j]) \/ IsNaN(travel_matrix[j][i])
                     THEN IsNaN(dmat[i][j])
                 ELSE EqRat(dmat[i][j],
                            WeightedNum(travel_matrix, populations, i, j),
                            WeightedDen(travel_matrix, populations, i, j))

C2_Witness ==
    /\ pc = "d_returned"
    /\ populations = <<0, 2>>
    /\ Len(travel_matrix) = 2
    /\ travel_matrix[1][2] = Num(1)
    /\ travel_matrix[2][1] = Num(2)
    /\ dmat[1][2] = Num(2)
    /\ dmat[2][1] = Num(2)

\* process_files has computed dtilde and d for the worked scenario.
ScenarioDone ==
    /\ pc = "pf_d"
    /\ travel_matrix = ScenarioT
    /\ populations = ScenarioPop

\* C3 as claimed: in the worked scenario dtilde[0,1] = 5, dtilde[1,2] =
\* 70/30 and d[0,1] = dtilde[1,0] = 4.
C3_ScenarioAsClaimed ==
    ScenarioDone =>
        /\ dtilde[1][2] = Num(5)
        /\ EqRat(dtilde[2][3], 70, 30)
        /\ dmat[1][2] = dtilde[2][1]
        /\ dmat[1][2] = Num(4)

\* C3 amended: in the worked scenario dtilde[0,1] = 5, dtilde[1,2] = 70/30
\* and d[0,1] = dtilde[1,0] = 5.
C3_Scenario ==
    ScenarioDone =>
        /\ dtilde[1][2] = Num(5)
        /\ EqRat(dtilde[2][3], 70, 30)
        /\ dmat[1][2] = dtilde[2][1]
        /\ dmat[1][2] = Num(5)

C3_Witness == ScenarioDone /\ dtilde[2][1] = Num(5)

\* C4: with dtilde = compute_dtilde_matrix(T, p) and d = compute_d_matrix(
\* dtilde, p), every k with p[k] = 0 has d[k,k] = 0 and d[k,j] = dtilde[j,k]
\* for every j # k, whatever p[j] and T are.
C4_ZeroPopulation ==
    pc = "pf_d" =>
        \A k \in 1..Len(populations) :
            populations[k] = 0 =>
                /\ dmat[k][k] = Num(0)
                /\ \A j \in 1..Len(populations) :
                      j # k => FEq(dmat[k][j], dtilde[j][k])

C4_Witness ==
    /\ pc = "pf_d"
    /\ travel_matrix = ScenarioT
    /\ populations = <<0, 0, 20>>
    /\ dmat[1][3] = Num(7)
    /\ dmat[1][2] = Num(0)
    /\ dmat[1][1] = Num(0)

\* C5 as claimed: with a population vector whose length differs from the
\* matrix dimension, compute_dtilde_matrix, compute_d_matrix and
\* process_files all fail: none of them returns a matrix.
C5_MismatchRejected ==
    (pc # "off" /\ Len(populations) # Len(travel_matrix)) =>
        pc \in {"start", "dtilde_raised", "d_raised", "pf_raised"}

\* C6: the matrix d that process_files computes is symmetric, for every T
\* and every population vector.
C6_DSymmetric ==
    pc = "pf_d" =>
        \A i, j \in 1..Len(populations) : FEq(dmat[i][j], dmat[j][i])

C6_Witness ==
    /\ ScenarioDone
    /\ ~FEq(travel_matrix[2][3], travel_matrix[3][2])
    /\ EqRat(dmat[2][3], 7, 3)
    /\ EqRat(dmat[3][2], 7, 3)
    /\ dmat[1][2] = Num(5)
    /\ dmat[2][1] = Num(5)

\* T[i,j] = T[j,i] for all i, j, as numbers: a NaN equals nothing.
Symmetric(tm) == \A i, j \in 1..Len(tm) : FEq(tm[i][j], tm[j][i])

C9_NaNNotCoerced ==
    DtildeDone =>
        \A i, j \in 1..Len(travel_matrix) :
            ( /\ IsNaN(travel_matrix[i][j]) \/ IsNaN(travel_matrix[j][i])
              /\ populations[i] + populations[j] > 0 ) =>
                /\ dtilde[i][j] # Num(0)
                /\ pc = "pf_d" => dmat[i][j] # Num(0)

\* Point j's node is reachable from point i's node.
Reaches(i, j) ==
    shortest_path_length(graph, nodes_snapped[i], nodes_snapped[j]).err = "none"

\* The walking cost from point i's node to point j's node.
Cost(i, j) ==
    shortest_path_length(graph, nodes_snapped[i], nodes_snapped[j]).val

\* C8 as claimed, for the drive matrices: whenever a drive computation has
\* ended it has returned a matrix, in either strategy, and the cell of every
\* pair whose target is unreachable from its source holds NaN.
C8_UnreachableIsNaN ==
    (rcall \in {"full_drive", "pair_drive"}) =>
        /\ rpc = "returned"
        /\ \A i, j \in 1..Len(nodes_snapped) :
              ~Reaches(i, j) => IsNaN(raw[i][j])

\* C10: a walking matrix that is returned is symmetric, in both strategies:
\* W[i,j] and W[j,i] are the same number or both NaN.
C10_WalkSymmetric ==
    (rcall \in {"full_walk", "pair_walk"} /\ rpc = "returned") =>
        \A i, j \in 1..Len(nodes_snapped) : raw[i][j] = raw[j][i]

C10_Witness ==
    /\ rcall = "full_walk"
    /\ rpc = "returned"
    /\ Len(nodes_snapped) = 2
    /\ Reaches(1, 2)
    /\ Reaches(2, 1)
    /\ Cost(1, 2) # Cost(2, 1)
    /\ IsFinite(raw[1][2])
    /\ raw[1][2] = raw[2][1]

\* For each point, the traversal from its node: node -> cost.
Lengths ==
    [i \in 1..Len(nodes_snapped) |->
        single_source_dijkstra_path_length(graph, nodes_snapped[i])]

\* Every point's node is reachable from every other point's node.
AllMutuallyReachable ==
    LET L == Lengths
    IN  \A i, j \in 1..Len(nodes_snapped) : nodes_snapped[j] \in DOMAIN L[i]

\* The matrix the per-source strategy computes for the same mode on the
\* same graph and node mapping.
PerSourceMatrix ==
    IF rcall = "pair_drive"
    THEN compute_full_drive_matrix(graph, nodes_snapped)
    ELSE compute_full_walk_matrix(graph, nodes_snapped)

\* The pairwise strategy has returned a matrix.
PairwiseReturned == rpc = "returned" /\ rcall \in {"pair_drive", "pair_walk"}

\* C11 as claimed: on a graph and node mapping in which every pair of
\* mapped nodes is mutually reachable, the matrix the pairwise strategy
\* returns is, cell for cell, the matrix the per-source strategy computes,
\* in drive mode and in walk mode.
C11_StrategiesAgreeAsClaimed ==
    (PairwiseReturned /\ AllMutuallyReachable) => raw = PerSourceMatrix

\* Every pair of mapped nodes is mutually reachable and the cost between
\* the two is the same in both directions.
CostsUndirected ==
    LET L == Lengths
    IN  \A i, j \in 1..Len(nodes_snapped) :
            /\ nodes_snapped[j] \in DOMAIN L[i]
            /\ nodes_snapped[i] \in DOMAIN L[j]
            /\ L[i][nodes_snapped[j]] = L[j][nodes_snapped[i]]

\* C11 amended: on a graph and node mapping in which every pair of mapped
\* nodes is mutually reachable, the pairwise strategy returns the matrix
\* the per-source strategy computes in drive mode, and in walk mode when
\* the cost between every two mapped nodes is the same in both directions.
C11_StrategiesAgree ==
    PairwiseReturned =>
        /\ (rcall = "pair_drive" /\ AllMutuallyReachable) =>
              raw = PerSourceMatrix
        /\ (rcall = "pair_walk" /\ CostsUndirected) =>
              raw = PerSourceMatrix

C11_Witness ==
    /\ rcall = "pair_drive"
    /\ rpc = "returned"
    /\ Len(nodes_snapped) = 2
    /\ AllMutuallyReachable
    /\ Cost(1, 2) = 1
    /\ Cost(2, 1) = 2
    /\ raw = << <<Num(0), Num(1)>>, <<Num(2), Num(0)>> >>
    /\ raw = PerSourceMatrix

\* C12: in a matrix that is returned, by either strategy in either mode,
\* T[i,i] = 0 for every i and T[i,j] = 0 whenever points i and j snap to
\* the same node; and no pair handed to the pool has i = j.
C12_SelfDistanceZero ==
    /\ rpc = "returned" =>
          \A i, j \in 1..Len(nodes_snapped) :
              nodes_snapped[i] = nodes_snapped[j] => raw[i][j] = Num(0)
    /\ \A k \in 1..Len(tasks) : tasks[k][1] # tasks[k][2]

C12_Witness ==
    /\ rcall = "pair_drive"
    /\ rpc = "returned"
    /\ Len(tasks) = 2
    /\ nodes_snapped[1] = nodes_snapped[2]
    /\ raw[1][2] = Num(0)
    /\ raw[2][2] = Num(0)

\* The tasks whose result the assembly loop writes to cell (i, j).
Writers(i, j) ==
    {k \in 1..Len(tasks) :
        \/ tasks[k] = <<i, j>>
        \/ PoolMode = "walk" /\ tasks[k] = <<j, i>>}

\* The cell the pairwise strategy means for (i, j): the query's result for
\* the pair in drive mode, for the pair taken with i < j in walk mode.
PairCell(i, j) ==
    IF PoolMode = "drive" THEN Num(Cost(i, j))
    ELSE IF i < j THEN walk_secs(Cost(i, j)) ELSE walk_secs(Cost(j, i))

\* C13: in the pairwise strategy, in whatever order the workers finish, the
\* matrix is assembled only when no submitted query is still pending, every
\* off-diagonal cell is written by the result of exactly one pair, and cell
\* (i, j) holds the result of the query for pair (i, j), for walking the
\* one result of the pair in both (i, j) and (j, i).
C13_AssemblyOrderFree ==
    /\ rpc \in {"returned", "raised"} =>
          \A k \in 1..Len(tasks) : results[k].st = "done"
    /\ rpc = "returned" =>
          \A i, j \in 1..Len(nodes_snapped) :
              i # j => /\ Cardinality(Writers(i, j)) = 1
                       /\ raw[i][j] = PairCell(i, j)

C13_Witness ==
    /\ rcall = "pair_drive"
    /\ rpc = "returned"
    /\ Len(tasks) = 2
    /\ Cost(1, 2) # Cost(2, 1)
    /\ raw[1][2] = Num(Cost(1, 2))
    /\ raw[2][1] = Num(Cost(2, 1))

\* C16 as claimed: in the matrix returned, the cell of every query that ran
\* past the time allowed holds NaN, the unreachable sentinel.
C16_TimeoutIsNaN ==
    rpc = "returned" =>
        \A k \in late : IsNaN(raw[tasks[k][1]][tasks[k][2]])

\* The array in the file load_labeled_matrix was given.
LoadedFile == disk[load_args[1]]

\* C14: a matrix saved by process_files and reloaded by load_labeled_matrix
\* with the same tract CSV comes back with exactly the saved values, and
\* row k and column k of the frame carry the k-th ID of the CSV.
C14_RoundTrip ==
    (pc \in {"loaded", "load_raised"} /\ load_args[1][1] = BaseName
       /\ load_args[2] = ids) =>
        /\ pc = "loaded"
        /\ frame.values = (IF load_args[1][2] = "dtilde" THEN dtilde ELSE dmat)
        /\ Len(frame.index) = Len(ids)
        /\ Len(frame.columns) = Len(ids)
        /\ \A k \in 1..Len(ids) :
              frame.index[k] = ids[k] /\ frame.columns[k] = ids[k]

C14_Witness ==
    /\ pc = "loaded"
    /\ load_args = <<output_path(BaseName, "dtilde", "walk", "npy"), <<"B", "A">> >>
    /\ ids = <<"B", "A">>
    /\ dtilde[1][1] = Num(1)
    /\ dtilde[1][2] = Num(2)
    /\ frame.values[1][1] = Num(1)
    /\ frame.values[1][2] = Num(2)
    /\ frame.index = <<"B", "A">>
    /\ frame.columns = <<"B", "A">>

\* C15: load_labeled_matrix raises and returns no frame whenever the number
\* of IDs in the tract CSV differs from the row count or from the column
\* count of the stored array; it returns no truncated or padded frame.
C15_LoadMismatchRaises ==
    (pc \in {"loaded", "load_raised"}
       /\ \/ Len(load_args[2]) # LoadedFile.shape[1]
          \/ Len(load_args[2]) # LoadedFile.shape[2]) =>
        /\ pc = "load_raised"
        /\ frame.err = "ValueError"
        /\ frame.values = <<>>

C15_Witness ==
    /\ pc = "load_raised"
    /\ LoadedFile.shape = <<2, 3>>
    /\ Len(load_args[2]) = 2
    /\ frame.err = "ValueError"

\* C17 as claimed: on an empty point set both raw-matrix functions fail at
\* once, before any other step, and write no matrix file.
C17_EmptyPointSetFails ==
    (fcall \in RawFunctions /\ n_points = 0 /\ fpc # "start") =>
        /\ fpc = "raised"
        /\ files = {}

\* The function has ended, by return or by an exception.
FlowEnded == fpc \in {"returned", "raised"}

\* C18 as claimed: when batch_process_all has ended, every pair whose
\* travel file exists and fits its CSV has had its files written, whatever
\* happened to the other pairs; and a raw-matrix function asked for walk
\* never ends on a failure of its drive segment with the walk segment not
\* run.
C18_SiblingsNotAborted ==
    /\ (fcall = "batch_process_all" /\ FlowEnded) =>
          \A k \in 1..Len(BatchPairs) :
              LET pair == BatchPairs[k]
              IN  ( /\ travel_dims[pair] # 0
                    /\ ~process_files_raises(travel_dims[pair],
                                             batch_csvs[pair[1]]) ) =>
                      pair \in outputs
    /\ ~ ( /\ fcall \in RawFunctions
           /\ fpc = "raised"
           /\ fseg = "drive"
           /\ do_walk )

\* C19: when building the network or snapping the points fails in a
\* segment, the function ends by raising and no file of that segment's mode
\* has been written; and every file written is of a mode whose whole matrix
\* had been computed.
C19_NoPartialFile ==
    fcall \in RawFunctions =>
        /\ ferr \in {"GraphUnavailable", "SnapError"} =>
              /\ fpc = "raised"
              /\ \A f \in files : f.mode # fseg
        /\ \A f \in files : f.mode \in computed

C19_Witness ==
    /\ fcall = "compute_matrices_dijkstra"
    /\ fpc = "raised"
    /\ ferr = "SnapError"
    /\ fseg = "walk"
    /\ computed = {"drive"}
    /\ \E f \in files : f.mode = "drive"

C21_FiniteOutputs ==
    DtildeDone =>
        \A i, j \in 1..Len(travel_matrix) :
            (IsFinite(travel_matrix[i][j]) /\ IsFinite(travel_matrix[j][i])) =>
                /\ IsFinite(dtilde[i][j])
                /\ pc = "pf_d" => IsFinite(dmat[i][j])

C21_Witness ==
    /\ pc = "pf_d"
    /\ populations = <<0, 0>>
    /\ Len(travel_matrix) = 2
    /\ AllFinite(travel_matrix)
    /\ travel_matrix[1][2] = Num(2)
    /\ dtilde[1][2] = Num(0)
    /\ dmat[1][2] = Num(0)

\* compute_dtilde_matrix has returned, on any matrix and any vector it
\* accepts.
DtildeReturned == pc \in {"dtilde_returned", "pf_dtilde", "pf_d"}

\* C28: the matrix compute_dtilde_matrix returns is exactly symmetric,
\* dtilde[i,j] = dtilde[j,i] for all i, j, for every square T, symmetric or
\* not, with or without NaN, and every population vector.
C28_DtildeSymmetric ==
    DtildeReturned =>
        \A i, j \in 1..Len(dtilde) : dtilde[i][j] = dtilde[j][i]

C28_Witness ==
    /\ pc = "dtilde_returned"
    /\ populations = <<1, 2>>
    /\ Len(travel_matrix) = 2
    /\ travel_matrix[1][2] = Num(1)
    /\ IsNaN(travel_matrix[2][1])
    /\ IsNaN(travel_matrix[1][1])
    /\ travel_matrix[2][2] = Num(2)
    /\ dtilde = << <<Num(0), Num(0)>>, <<Num(0), Num(2)>> >>

\* C29: the second pass changes nothing: the d that process_files computes
\* from dtilde equals dtilde in every cell, for every square T and every
\* population vector of its length, in exact arithmetic.
C29_SecondPassIdentity ==
    pc = "pf_d" =>
        /\ Len(dmat) = Len(dtilde)
        /\ \A i, j \in 1..Len(dtilde) : dmat[i][j] = dtilde[i][j]

C29_Witness ==
    /\ pc = "pf_d"
    /\ populations = <<1, 2>>
    /\ Len(travel_matrix) = 2
    /\ travel_matrix[1][2] = Num(1)
    /\ travel_matrix[2][1] = Num(2)
    /\ EqRat(dtilde[1][2], 5, 3)
    /\ EqRat(dmat[1][2], 5, 3)
    /\ EqRat(dmat[2][1], 5, 3)

\* C22: in the matrix compute_full_walk_matrix returns, for every pair
\* i < j: if j reaches i, W[i,j] and W[j,i] both hold the cost from j to i
\* over 1.42; if only i reaches j, both hold the cost from i to j over
\* 1.42; and both are NaN exactly when neither reaches the other.
C22_WalkLastWriteWins ==
    (rcall = "full_walk" /\ rpc = "returned") =>
        LET L == Lengths
            reach(a, b) == nodes_snapped[b] \in DOMAIN L[a]
            secs(a, b) == walk_secs(L[a][nodes_snapped[b]])
        IN  \A i, j \in 1..Len(nodes_snapped) :
                i < j =>
                    /\ raw[i][j] = raw[j][i]
                    /\ reach(j, i) => raw[i][j] = secs(j, i)
                    /\ (~reach(j, i) /\ reach(i, j)) => raw[i][j] = secs(i, j)
                    /\ IsNaN(raw[i][j]) <=> (~reach(i, j) /\ ~reach(j, i))

C22_Witness ==
    /\ rcall = "full_walk"
    /\ rpc = "returned"
    /\ Len(nodes_snapped) = 2
    /\ Reaches(1, 2)
    /\ Reaches(2, 1)
    /\ Cost(1, 2) = 1
    /\ Cost(2, 1) = 2
    /\ raw[1][2] = walk_secs(2)
    /\ raw[2][1] = walk_secs(2)

\* The pairs batch_process_all called process_files for: those whose files
\* were written, and the one whose call raised.
Called ==
    outputs \cup (IF fpc = "raised" THEN {BatchPairs[bpos]} ELSE {})

\* The k-th pair has been reached by the loops.
Reached(k) == k < bpos \/ (k = bpos /\ fpc = "raised")

PopulationsLoaded == pc \in {"pf_loaded", "pf_dtilde", "pf_d", "pf_saved"}

\* C26: process_files takes every empty or non-numeric population cell as
\* population 0 before it computes dtilde and d; the tract of such a cell
\* follows the zero-population rules (0 against another zero-population
\* tract, the other tract's travel time against a populated one) and no
\* cell of its row or column in dtilde or d is NaN.
C26_MissingPopulationIsZero ==
    PopulationsLoaded =>
        \A k \in 1..Len(pop_column) :
            pop_column[k].kind # "num" =>
                /\ populations[k] = 0
                /\ pc \in {"pf_dtilde", "pf_d", "pf_saved"} =>
                      \A j \in 1..Len(pop_column) :
                          /\ ~IsNaN(dtilde[k][j])
                          /\ ~IsNaN(dtilde[j][k])
                          /\ populations[j] = 0 => dtilde[k][j] = Num(0)
                          /\ ( /\ populations[j] > 0
                               /\ IsFinite(travel_matrix[k][j])
                               /\ IsFinite(travel_matrix[j][k]) ) =>
                                 dtilde[k][j] = travel_matrix[j][k]
                /\ pc \in {"pf_d", "pf_saved"} =>
                      \A j \in 1..Len(pop_column) :
                          /\ ~IsNaN(dmat[k][j])
                          /\ ~IsNaN(dmat[j][k])
                          /\ populations[j] = 0 => dmat[k][j] = Num(0)
                          /\ populations[j] > 0 => dmat[k][j] = dtilde[j][k]

C26_Witness ==
    /\ pc = "pf_saved"
    /\ pop_column = <<CsvText, CsvNum(1)>>
    /\ populations = <<0, 1>>
    /\ travel_matrix[1][2] = Num(1)
    /\ travel_matrix[2][1] = Num(2)
    /\ dtilde[1][2] = Num(2)
    /\ dmat[1][2] = Num(2)

\* C30: when the travel matrix's row count differs from the number of
\* population entries, process_files raises ValueError in the step that
\* tests it, with the output folder as it was: no file of the base name is
\* created or overwritten, and nothing is written after the raise.
C30_MismatchWritesNothing ==
    [][ /\ (pc = "start" /\ Len(travel_matrix) # Len(pop_column)) =>
              /\ pc' = "pf_raised"
              /\ err' = "ValueError"
              /\ disk' = disk
        /\ pc = "pf_raised" => disk' = disk ]_vars

C30_Witness ==
    /\ pc = "pf_raised"
    /\ err = "ValueError"
    /\ Len(travel_matrix) = 1
    /\ Len(pop_column) = 2
    /\ disk = OlderOutputs

\* C27: a drive computation that returns puts in D[i,j] the cost from point
\* i to point j, whatever D[j,i] holds, so D[i,j] and D[j,i] differ where
\* the two directions cost differently; and compute_dtilde_matrix and
\* compute_d_matrix, given such a D and populations of its size, return a
\* matrix of D's size, raise nothing and leave D as it was.
C27_AsymmetryTolerated ==
    /\ (rcall \in {"full_drive", "pair_drive"} /\ rpc = "returned") =>
          LET L == Lengths
          IN  \A i, j \in 1..Len(nodes_snapped) :
                  (i # j /\ nodes_snapped[j] \in DOMAIN L[i]) =>
                      raw[i][j] = Num(L[i][nodes_snapped[j]])
    /\ pc \in {"dtilde_returned", "dtilde_raised", "d_returned", "d_raised"} =>
          /\ err = "none"
          /\ travel_matrix = raw
          /\ pc = "dtilde_returned" => Len(dtilde) = Len(raw)
          /\ pc = "d_returned" => Len(dmat) = Len(raw)
          /\ pc \in {"dtilde_returned", "d_returned"}

C27_Witness ==
    /\ rcall = "pair_drive"
    /\ pc = "dtilde_returned"
    /\ Len(raw) = 2
    /\ raw[1][2] = Num(1)
    /\ raw[2][1] = Num(2)
    /\ travel_matrix = raw
    /\ populations = <<1, 2>>
    /\ EqRat(dtilde[1][2], 5, 3)
    /\ EqRat(dtilde[2][1], 5, 3)

\* C23 as claimed: the file compute_matrices_dijkstra writes for a mode is
\* the file batch_process_all looks up for the city and that mode, so when
\* main has returned, batch_process_all has found the matrix of every mode
\* step 3 computed, and the dtilde and d files of both modes were written.
C23_Step3FeedsStep4 ==
    MainReturned =>
        \A mode \in {"drive", "walk"} :
            /\ mode \in computed =>
                  /\ raw_path("compute_matrices_dijkstra", mode) =
                        travel_file(base_name(tract_file), mode)
                  /\ <<1, mode>> \notin warned
            /\ <<1, mode>> \in outputs

\* C24 as claimed: step 3 calls compute_matrices_dijkstra for exactly the
\* modes whose file of the day is missing and is skipped when none is, and
\* a second run on the same date after a first run that returned computes
\* no raw matrix.
C24_NoRecomputationOnRerun ==
    /\ (mpc = "in3" /\ fpc = "start") =>
          /\ do_drive = ~path_exists(files, master_raw_path("drive"))
          /\ do_walk = ~path_exists(files, master_raw_path("walk"))
          /\ do_drive \/ do_walk
    /\ mpc = "step4" =>
          /\ path_exists(files, master_raw_path("drive"))
          /\ path_exists(files, master_raw_path("walk"))
    /\ mrun > 1 => (mpc # "in3" /\ computed = {})

====
